---- MODULE Spec2Model ----
(***************************************************************************)
(* Model of the Convex -> Supabase migration agent (src/agent.py).         *)
(*                                                                         *)
(* Texts (API responses, paths, file contents) are sequences of            *)
(* one-character strings, so that the regular-expression scan, lstrip and  *)
(* strip of parse_file_blocks are computed character by character.         *)
(***************************************************************************)
EXTENDS Integers, Sequences, FiniteSets, TLC

VARIABLES
    pc,             \* position of the running function
    retries,        \* call_cursor_api: the retries parameter
    attempt,        \* call_cursor_api: the loop variable of `for attempt in range(retries)`
    outcomes,       \* call_cursor_api: outcome of every request issued so far, in order
    log,            \* call_cursor_api: requests and sleeps performed so far, in order
    apiState,       \* call_cursor_api: "idle" | "running" | "returned" | "raised"
    apiValue,       \* call_cursor_api: the value returned (a text)
    response,       \* parse_file_blocks: its argument (a text)
    changes,        \* parse_file_blocks: the list it returns
    source,         \* the files of the source tree, in the order iter_source_files yields them
    target,         \* the files reachable from target_root: location -> content
    all_changes,    \* step_apply_changes: the operation list it is given
    dry_run,        \* step_apply_changes: its dry_run flag
    stats,          \* step_apply_changes: the counters copied, written, deleted, skipped
    cursor,         \* step_apply_changes: number of loop iterations done in the current loop
    target0,        \* the target tree when step_apply_changes was entered
    runs,           \* the stats returned by the calls of step_apply_changes so far
    api_key,        \* main: the CURSOR_API_KEY environment variable (a text)
    analysis,       \* main: the result of step_analyze
    schema_changes, \* main: the result of step_generate_schema
    app_changes,    \* step_migrate_files: its local all_changes
    batch_i,        \* step_migrate_files: number of batches completed
    calls,          \* the completion calls issued so far: the files each prompt carried
    replies,        \* the completion calls that returned so far: the text, and whether
                    \* every attempt of the call had failed
    exit_code,      \* the status the process ended with (-1 while it runs)
    report          \* whether migration_report.md has been written

ApiVars == <<retries, attempt, outcomes, log, apiState, apiValue>>
ParseVars == <<response, changes>>
FsVars == <<source, target, all_changes, dry_run, stats, cursor, target0, runs>>
MainVars == <<api_key, analysis, schema_changes, app_changes, batch_i, calls, replies,
              exit_code, report>>

vars == <<pc, ApiVars, ParseVars, FsVars, MainVars>>

(***************************************************************************)
(* Bounds of the model.                                                    *)
(***************************************************************************)
MaxRetries == 4
MaxOps == 2
MaxFiles == 12
MaxBlocks == 2

(***************************************************************************)
(* Texts.                                                                  *)
(***************************************************************************)
EmptyText == << >>


StartsWith(t, i, lit) ==
    /\ i >= 1
    /\ i + Len(lit) - 1 <= Len(t)
    /\ \A k \in 1..Len(lit) : t[i + k - 1] = lit[k]

\* The characters of the model's alphabet that \s matches and str.strip() removes.
IsSpace(c) == c \in {" ", "\t", "\n", "\r"}
NotQuote(c) == c # "\""

RECURSIVE SpaceRun(_, _)
\* Number of consecutive whitespace characters of t from position i.
SpaceRun(t, i) ==
    IF i <= Len(t) /\ IsSpace(t[i]) THEN 1 + SpaceRun(t, i + 1) ELSE 0

RECURSIVE NotQuoteRun(_, _)
\* Number of consecutive characters other than '"' of t from position i.
NotQuoteRun(t, i) ==
    IF i <= Len(t) /\ NotQuote(t[i]) THEN 1 + NotQuoteRun(t, i + 1) ELSE 0

RECURSIVE FindFrom(_, _, _)
\* Least position >= i where lit occurs in t; 0 when there is none.
FindFrom(t, i, lit) ==
    IF i + Len(lit) - 1 > Len(t) THEN 0
    ELSE IF StartsWith(t, i, lit) THEN i
    ELSE FindFrom(t, i + 1, lit)

Slice(t, from, to) == IF from > to THEN << >> ELSE SubSeq(t, from, to)

RECURSIVE LStripSlash(_)
\* str.lstrip("/")
LStripSlash(t) ==
    IF t # << >> /\ Head(t) = "/" THEN LStripSlash(Tail(t)) ELSE t

RECURSIVE LStripSpace(_)
LStripSpace(t) ==
    IF t # << >> /\ IsSpace(Head(t)) THEN LStripSpace(Tail(t)) ELSE t

RECURSIVE RStripSpace(_)
RStripSpace(t) ==
    IF t # << >> /\ IsSpace(t[Len(t)]) THEN RStripSpace(SubSeq(t, 1, Len(t) - 1)) ELSE t

\* str.strip()
Strip(t) == RStripSpace(LStripSpace(t))

RECURSIVE Flatten(_)
\* The concatenation of a sequence of texts (of lists).
Flatten(ss) == IF ss = << >> THEN << >> ELSE Head(ss) \o Flatten(Tail(ss))

(***************************************************************************)
(* parse_file_blocks (src/agent.py 158-180).                               *)
(*                                                                         *)
(* file_pattern   = <FILE\s+path="([^"]+)">(.*?)</FILE>   (re.DOTALL)      *)
(* delete_pattern = <DELETE\s+path="([^"]+)"\s*/>                          *)
(*                                                                         *)
(* A match attempt at one start position is deterministic: \s+ and [^"]+   *)
(* are each followed by a literal whose first character is outside their   *)
(* class, so only their longest run can be followed by it, and the lazy    *)
(* .*? stops at the first </FILE>.  finditer scans left to right and       *)
(* resumes at the end of each match.                                       *)
(***************************************************************************)
FILE_OPEN == <<"<", "F", "I", "L", "E">>
FILE_CLOSE == <<"<", "/", "F", "I", "L", "E", ">">>
DELETE_OPEN == <<"<", "D", "E", "L", "E", "T", "E">>
PATH_ATTR == <<"p", "a", "t", "h", "=", "\"">>
QUOTE == <<"\"">>
QUOTE_GT == <<"\"", ">">>
SLASH_GT == <<"/", ">">>

NoMatch == [ok |-> FALSE, group1 |-> << >>, group2 |-> << >>, end |-> 0]

\* Mutant of FileMatchAt: the whitespace before the path attribute is optional.
FileMatchAtOptionalSpace(t, s) ==
    LET p1 == s + Len(FILE_OPEN)
        p2 == p1 + SpaceRun(t, p1)
        p3 == p2 + Len(PATH_ATTR)
        p4 == p3 + NotQuoteRun(t, p3)
        p5 == p4 + Len(QUOTE_GT)
        e  == FindFrom(t, p5, FILE_CLOSE)
    IN  IF /\ StartsWith(t, s, FILE_OPEN)
           /\ StartsWith(t, p2, PATH_ATTR)
           /\ p4 > p3
           /\ StartsWith(t, p4, QUOTE_GT)
           /\ e # 0
        THEN [ok |-> TRUE, group1 |-> Slice(t, p3, p4 - 1),
              group2 |-> Slice(t, p5, e - 1), end |-> e + Len(FILE_CLOSE)]
        ELSE NoMatch

\* file_pattern matched at start position s of t.
FileMatchAt(t, s) ==
    LET p1 == s + Len(FILE_OPEN)
        p2 == p1 + SpaceRun(t, p1)
        p3 == p2 + Len(PATH_ATTR)
        p4 == p3 + NotQuoteRun(t, p3)
        p5 == p4 + Len(QUOTE_GT)
        e  == FindFrom(t, p5, FILE_CLOSE)
    IN  IF /\ StartsWith(t, s, FILE_OPEN)
           /\ p2 > p1
           /\ StartsWith(t, p2, PATH_ATTR)
           /\ p4 > p3
           /\ StartsWith(t, p4, QUOTE_GT)
           /\ e # 0
        THEN [ok |-> TRUE, group1 |-> Slice(t, p3, p4 - 1),
              group2 |-> Slice(t, p5, e - 1), end |-> e + Len(FILE_CLOSE)]
        ELSE NoMatch

\* delete_pattern matched at start position s of t.
DeleteMatchAt(t, s) ==
    LET p1 == s + Len(DELETE_OPEN)
        p2 == p1 + SpaceRun(t, p1)
        p3 == p2 + Len(PATH_ATTR)
        p4 == p3 + NotQuoteRun(t, p3)
        p5 == p4 + Len(QUOTE)
        p6 == p5 + SpaceRun(t, p5)
    IN  IF /\ StartsWith(t, s, DELETE_OPEN)
           /\ p2 > p1
           /\ StartsWith(t, p2, PATH_ATTR)
           /\ p4 > p3
           /\ StartsWith(t, p4, QUOTE)
           /\ StartsWith(t, p6, SLASH_GT)
        THEN [ok |-> TRUE, group1 |-> Slice(t, p3, p4 - 1),
              group2 |-> << >>, end |-> p6 + Len(SLASH_GT)]
        ELSE NoMatch

RECURSIVE FileMatches(_, _)
\* file_pattern.finditer(t), from position s on.
FileMatches(t, s) ==
    IF s > Len(t) THEN << >>
    ELSE LET m == FileMatchAt(t, s)
         IN  IF m.ok THEN <<m>> \o FileMatches(t, m.end)
             ELSE FileMatches(t, s + 1)

RECURSIVE DeleteMatches(_, _)
\* delete_pattern.finditer(t), from position s on.
DeleteMatches(t, s) ==
    IF s > Len(t) THEN << >>
    ELSE LET m == DeleteMatchAt(t, s)
         IN  IF m.ok THEN <<m>> \o DeleteMatches(t, m.end)
             ELSE DeleteMatches(t, s + 1)

\* Mutant of WriteChange: the content is taken untrimmed.
WriteChangeVerbatim(m) ==
    [action |-> "write", path |-> LStripSlash(m.group1), content |-> m.group2]

WriteChange(m) ==
    [action |-> "write", path |-> LStripSlash(m.group1), content |-> Strip(m.group2)]

DeleteChange(m) ==
    [action |-> "delete", path |-> LStripSlash(m.group1), content |-> << >>]

\* Mutant of parse_file_blocks: the delete operations come first.
parse_file_blocksDeletesFirst(t) ==
    LET fm == FileMatches(t, 1)
        dm == DeleteMatches(t, 1)
    IN  [i \in 1..Len(dm) |-> DeleteChange(dm[i])] \o [i \in 1..Len(fm) |-> WriteChange(fm[i])]

parse_file_blocks(t) ==
    LET fm == FileMatches(t, 1)
        dm == DeleteMatches(t, 1)
    IN  [i \in 1..Len(fm) |-> WriteChange(fm[i])] \o [i \in 1..Len(dm) |-> DeleteChange(dm[i])]

(***************************************************************************)
(* Paths.  A pathlib path is the sequence of its parts (strings); a text   *)
(* becomes a path by splitting at "/" and dropping empty and "." segments, *)
(* as PurePosixPath does.  A location is what the operating system reaches *)
(* from a root through a relative path: ".." steps to the parent, so a     *)
(* location that starts with ".." lies outside the root.                   *)
(***************************************************************************)
RECURSIVE Join(_)
\* The string made of a sequence of characters.
Join(cs) == IF cs = << >> THEN "" ELSE Head(cs) \o Join(Tail(cs))

RECURSIVE SplitSlash(_)
\* str.split("/")
SplitSlash(t) ==
    IF t = << >> THEN << << >> >>
    ELSE LET rest == SplitSlash(Tail(t))
         IN  IF Head(t) = "/" THEN << << >> >> \o rest
             ELSE << <<Head(t)>> \o Head(rest) >> \o Tail(rest)

\* Path(text).parts for a text that does not start with "/".
Parts(t) ==
    LET segs == SplitSlash(t)
        Kept(seg) == seg # << >> /\ seg # <<".">>
        kept == SelectSeq(segs, Kept)
    IN  [i \in 1..Len(kept) |-> Join(kept[i])]

RECURSIVE ResolveFrom(_, _)
ResolveFrom(acc, parts) ==
    IF parts = << >> THEN acc
    ELSE IF Head(parts) = ".." /\ acc # << >> /\ acc[Len(acc)] # ".."
         THEN ResolveFrom(SubSeq(acc, 1, Len(acc) - 1), Tail(parts))
         ELSE ResolveFrom(Append(acc, Head(parts)), Tail(parts))

\* The location of root / parts, relative to root.
Resolve(parts) == ResolveFrom(<< >>, parts)

OutsideRoot(loc) == loc # << >> /\ loc[1] = ".."

\* A tree is a function from the locations of its files to their contents.
EmptyTree == [loc \in {} |-> << >>]
Exists(tree, loc) == loc \in DOMAIN tree

\* Mutant of WriteFile: an existing file is kept as it is.
WriteFileKeepExisting(tree, loc, content) ==
    [l \in (DOMAIN tree) \cup {loc} |-> IF l \in DOMAIN tree THEN tree[l] ELSE content]

\* write_text, copy2: the file at loc is created or overwritten.
WriteFile(tree, loc, content) ==
    [l \in (DOMAIN tree) \cup {loc} |-> IF l = loc THEN content ELSE tree[l]]

\* Mutant of RemoveFile: the file is emptied, not removed.
RemoveFileTruncate(tree, loc) ==
    [l \in DOMAIN tree |-> IF l = loc THEN << >> ELSE tree[l]]

\* unlink: the file at loc is removed.
RemoveFile(tree, loc) == [l \in (DOMAIN tree) \ {loc} |-> tree[l]]

(***************************************************************************)
(* iter_source_files (src/agent.py 133-144).  The source tree is the       *)
(* sequence of its regular files sorted by path; a file is its relative    *)
(* path (a text) and its content (a text).                                 *)
(***************************************************************************)
IGNORE_DIRS ==
    {"node_modules", ".git", ".expo", "dist", "build",
     ".next", "__pycache__", ".convex", ".cache", "android", "ios"}

IGNORE_EXTENSIONS ==
    {".png", ".jpg", ".jpeg", ".gif", ".ico", ".ttf", ".otf",
     ".woff", ".woff2", ".mp4", ".mp3", ".zip", ".tar", ".gz", ".lock"}

CODE_EXTENSIONS ==
    {".ts", ".tsx", ".js", ".jsx", ".json", ".md", ".env", ".example", ".sql"}

RECURSIVE LastDot(_, _)
\* str.rfind("."): the greatest position <= i of "." in name, 0 when there is none.
LastDot(name, i) ==
    IF i = 0 THEN 0 ELSE IF name[i] = "." THEN i ELSE LastDot(name, i - 1)

\* PurePath.suffix of a path text: the last part from its last dot on, unless
\* that dot is the part's first or last character.
Suffix(t) ==
    LET segs == SplitSlash(t)
        Kept(seg) == seg # << >> /\ seg # <<".">>
        kept == SelectSeq(segs, Kept)
        name == IF kept = << >> THEN << >> ELSE kept[Len(kept)]
        i == LastDot(name, Len(name))
    IN  IF 1 < i /\ i < Len(name) THEN Join(SubSeq(name, i, Len(name))) ELSE ""

InIgnoredDir(t) == \E i \in 1..Len(Parts(t)) : Parts(t)[i] \in IGNORE_DIRS

Yielded(f) == ~InIgnoredDir(f.path) /\ Suffix(f.path) \notin IGNORE_EXTENSIONS

iter_source_files(tree) == SelectSeq(tree, Yielded)

(***************************************************************************)
(* step_apply_changes (src/agent.py 308-350).                              *)
(***************************************************************************)
LEGACY_DIR == "convex"

ZeroStats == [copied |-> 0, written |-> 0, deleted |-> 0, skipped |-> 0]

IsWrite(c) == c.action = "write"
IsDelete(c) == c.action = "delete"

\* Mutant of SkippedByCopy: the second part is compared instead of the first.
SkippedByCopySecondPart(f) == Len(Parts(f.path)) > 1 /\ Parts(f.path)[2] = LEGACY_DIR

\* Mutant of SkippedByCopy: no file is skipped.
SkippedByCopyNever(f) == FALSE

\* `rel.parts and rel.parts[0] == "convex"`
SkippedByCopy(f) == Parts(f.path) # << >> /\ Parts(f.path)[1] = LEGACY_DIR

\* dest = target_root / change["path"]
Dest(change) == Resolve(Parts(change.path))

\* Mutant of DryRunStats: every operation is counted as a write.
DryRunStatsAllWritten(ops) ==
    [ZeroStats EXCEPT !.written = Len(ops),
                      !.deleted = Len(SelectSeq(ops, IsDelete))]

\* lines 319-320: the stats of a dry run.
DryRunStats(ops) ==
    [ZeroStats EXCEPT !.written = Len(SelectSeq(ops, IsWrite)),
                      !.deleted = Len(SelectSeq(ops, IsDelete))]

\* The dry-run branch: count the operations and return.
ApplyDryRun ==
    /\ pc = "apply"
    /\ dry_run
    /\ stats' = DryRunStats(all_changes)
    /\ runs' = Append(runs, stats')
    /\ pc' = "applied"
    /\ UNCHANGED <<ApiVars, ParseVars, MainVars, source, target, all_changes, dry_run, cursor, target0>>

\* Live mode: stats is initialised and the copy loop starts.
ApplyLive ==
    /\ pc = "apply"
    /\ ~dry_run
    /\ stats' = ZeroStats
    /\ cursor' = 0
    /\ pc' = "copy"
    /\ UNCHANGED <<ApiVars, ParseVars, MainVars, source, target, all_changes, dry_run, target0, runs>>

\* One iteration of `for src_file in iter_source_files(source_root)`.
CopyFile ==
    /\ pc = "copy"
    /\ cursor < Len(iter_source_files(source))
    /\ LET f == iter_source_files(source)[cursor + 1]
       IN  IF SkippedByCopy(f)
           THEN UNCHANGED <<target, stats>>
           ELSE /\ target' = WriteFile(target, Resolve(Parts(f.path)), f.content)
                /\ stats' = [stats EXCEPT !.copied = @ + 1]
    /\ cursor' = cursor + 1
    /\ UNCHANGED <<pc, ApiVars, ParseVars, MainVars, source, all_changes, dry_run, target0, runs>>

\* The copy loop ends; the loop over all_changes starts.
CopyDone ==
    /\ pc = "copy"
    /\ cursor = Len(iter_source_files(source))
    /\ pc' = "ops"
    /\ cursor' = 0
    /\ UNCHANGED <<ApiVars, ParseVars, MainVars, source, target, all_changes, dry_run, stats, target0, runs>>

\* Mutant of ApplyChange: a delete is counted as deleted whether or not the
\* file exists.
ApplyChangeCountsEveryDelete ==
    /\ pc = "ops"
    /\ cursor < Len(all_changes)
    /\ LET change == all_changes[cursor + 1]
           dest == Dest(change)
       IN  IF IsWrite(change)
           THEN /\ target' = WriteFile(target, dest, change.content)
                /\ stats' = [stats EXCEPT !.written = @ + 1]
           ELSE /\ target' = RemoveFile(target, dest)
                /\ stats' = [stats EXCEPT !.deleted = @ + 1]
    /\ cursor' = cursor + 1
    /\ UNCHANGED <<pc, ApiVars, ParseVars, MainVars, source, all_changes, dry_run, target0, runs>>

\* One iteration of `for change in all_changes`.
ApplyChange ==
    /\ pc = "ops"
    /\ cursor < Len(all_changes)
    /\ LET change == all_changes[cursor + 1]
           dest == Dest(change)
       IN  IF IsWrite(change)
           THEN /\ target' = WriteFile(target, dest, change.content)
                /\ stats' = [stats EXCEPT !.written = @ + 1]
           ELSE IF IsDelete(change)
           THEN IF Exists(target, dest)
                THEN /\ target' = RemoveFile(target, dest)
                     /\ stats' = [stats EXCEPT !.deleted = @ + 1]
                ELSE /\ stats' = [stats EXCEPT !.skipped = @ + 1]
                     /\ UNCHANGED target
           ELSE UNCHANGED <<target, stats>>
    /\ cursor' = cursor + 1
    /\ UNCHANGED <<pc, ApiVars, ParseVars, MainVars, source, all_changes, dry_run, target0, runs>>

\* `return stats` of live mode.
ApplyReturn ==
    /\ pc = "ops"
    /\ cursor = Len(all_changes)
    /\ pc' = "applied"
    /\ runs' = Append(runs, stats)
    /\ UNCHANGED <<ApiVars, ParseVars, MainVars, source, target, all_changes, dry_run, stats, cursor, target0>>

ApplyStep ==
    \/ ApplyDryRun
    \/ ApplyLive
    \/ CopyFile
    \/ CopyDone
    \/ ApplyChange
    \/ ApplyReturn

(***************************************************************************)
(* uses_convex, batch, step_analyze (src/agent.py 183-219).                *)
(* Files are small and readable: read_file_safe returns their content.     *)
(***************************************************************************)
Contains(t, lit) == FindFrom(t, 1, lit) # 0

CONVEX == <<"c", "o", "n", "v", "e", "x">>

convex_markers ==
    << <<"f", "r", "o", "m", " ", "'">> \o CONVEX,
       <<"f", "r", "o", "m", " ", "\"">> \o CONVEX,
       <<"u", "s", "e", "Q", "u", "e", "r", "y">>,
       <<"u", "s", "e", "M", "u", "t", "a", "t", "i", "o", "n">>,
       <<"u", "s", "e", "A", "c", "t", "i", "o", "n">>,
       <<"C", "o", "n", "v", "e", "x", "P", "r", "o", "v", "i", "d", "e", "r">>,
       <<"C", "o", "n", "v", "e", "x", "R", "e", "a", "c", "t", "C", "l", "i", "e", "n", "t">>,
       <<"a", "p", "i", ".">>,
       CONVEX \o <<"/">> >>

uses_convex(content) ==
    \E k \in 1..Len(convex_markers) : Contains(content, convex_markers[k])

Min(a, b) == IF a < b THEN a ELSE b

RECURSIVE BatchFrom(_, _, _)
\* The slices items[i : i + size] for i = start, start + size, ... < len(items).
BatchFrom(items, size, start) ==
    IF start >= Len(items) THEN << >>
    ELSE <<Slice(items, start + 1, Min(start + size, Len(items)))>>
         \o BatchFrom(items, size, start + size)

\* Mutant of batch: a last batch shorter than size is dropped.
batchDropsRemainder(items, size) ==
    SelectSeq(BatchFrom(items, size, 0), LAMBDA b : Len(b) = size)

\* list(batch(items, size))
batch(items, size) == BatchFrom(items, size, 0)

BATCH_SIZE == 5

\* `"convex" in str(f.relative_to(source_root)).split("/")[0]`
IsConvexFile(f) == Contains(SplitSlash(f.path)[1], CONVEX)

IsConvexUsing(f) == Suffix(f.path) \in CODE_EXTENSIONS /\ uses_convex(f.content)

step_analyze(tree) ==
    [all_files    |-> iter_source_files(tree),
     convex_files |-> SelectSeq(iter_source_files(tree), IsConvexFile),
     convex_using |-> SelectSeq(iter_source_files(tree), IsConvexUsing)]

NoAnalysis == [all_files |-> << >>, convex_files |-> << >>, convex_using |-> << >>]

(***************************************************************************)
(* Texts the model draws its inputs from.                                  *)
(***************************************************************************)
P_APP == <<"a", "p", "p", "/", "b", ".", "t", "s">>
P_LEGACY == CONVEX \o <<"/", "a", ".", "t", "s">>
P_NEW == <<"s", "u", "p", "a", "/", "c", ".", "t", "s">>
P_OUT == <<".", ".", "/", "x">>

V1 == <<"v", "1">>
V2 == <<"v", "2">>
OLD == <<"o", "l", "d">>

WriteBlock(path, content) ==
    FILE_OPEN \o <<" ">> \o PATH_ATTR \o path \o QUOTE_GT \o content \o FILE_CLOSE

DeleteBlock(path) ==
    DELETE_OPEN \o <<" ">> \o PATH_ATTR \o path \o QUOTE \o <<" ">> \o SLASH_GT

RESP_A == WriteBlock(P_NEW, V1) \o <<"\n">> \o DeleteBlock(P_LEGACY)
RESP_B == DeleteBlock(P_NEW) \o <<"\n">> \o WriteBlock(P_APP, V2)

\* The completion texts a successful response may carry.
Responses == { RESP_A, RESP_B }

(***************************************************************************)
(* call_cursor_api (src/agent.py 89-128).                                  *)
(* One action per iteration of the retry loop: the request, the branch     *)
(* taken on its outcome and the sleep of that branch.  The outcomes are    *)
(* those the function handles: a successful response, an HTTPError with    *)
(* status 429, an HTTPError with another status, a Timeout.                *)
(***************************************************************************)
DEFAULT_RETRIES == 3

Request == [ev |-> "request", secs |-> 0]
Sleep(d) == [ev |-> "sleep", secs |-> d]

RateLimitWait(k) == 10 * (k + 1)
HTTP_ERROR_SLEEP == 3
TIMEOUT_SLEEP == 5

\* `attempt < retries - 1`: the guard of both generic retry branches.
MayRetry(k, n) == k < n - 1

\* The call: attempt becomes the first element of range(retries).
BeginCall(n) ==
    /\ retries' = n
    /\ attempt' = 0
    /\ outcomes' = << >>
    /\ log' = << >>
    /\ apiState' = "running"
    /\ apiValue' = EmptyText

\* The caller has the result: the locals of the call are gone.
EndCall ==
    /\ retries' = DEFAULT_RETRIES
    /\ attempt' = 0
    /\ outcomes' = << >>
    /\ log' = << >>
    /\ apiState' = "idle"
    /\ apiValue' = EmptyText

\* Every attempt the call was allowed has been made and none succeeded.
AllAttemptsFailed ==
    /\ Len(outcomes) = retries
    /\ \A i \in 1..Len(outcomes) : outcomes[i] # "ok"

\* What a returned call leaves in replies.
Reply == [text |-> apiValue, exhausted |-> AllAttemptsFailed]

\* Mutant of InLoop: the loop runs once more than range(retries).
InLoopOnceMore == apiState = "running" /\ attempt <= retries

\* `for attempt in range(retries)`: the loop has an element left.
InLoop == apiState = "running" /\ attempt < retries

\* resp.raise_for_status() passes: return data["choices"][0]["message"]["content"].
AttemptSuccess ==
    /\ InLoop
    /\ \E text \in Responses :
          /\ apiValue' = text
          /\ outcomes' = Append(outcomes, "ok")
          /\ log' = Append(log, Request)
          /\ apiState' = "returned"
    /\ UNCHANGED <<pc, retries, attempt, ParseVars, FsVars, MainVars>>

\* HTTPError with status 429: sleep 10 * (attempt + 1), next iteration.
Attempt429 ==
    /\ InLoop
    /\ outcomes' = Append(outcomes, "429")
    /\ log' = log \o <<Request, Sleep(RateLimitWait(attempt))>>
    /\ attempt' = attempt + 1
    /\ UNCHANGED <<pc, retries, apiState, apiValue, ParseVars, FsVars, MainVars>>

\* HTTPError with another status: sleep 3 and retry, or raise RuntimeError.
AttemptHTTPError ==
    /\ InLoop
    /\ outcomes' = Append(outcomes, "http")
    /\ IF MayRetry(attempt, retries)
          THEN /\ log' = log \o <<Request, Sleep(HTTP_ERROR_SLEEP)>>
               /\ attempt' = attempt + 1
               /\ UNCHANGED apiState
          ELSE /\ log' = Append(log, Request)
               /\ apiState' = "raised"
               /\ UNCHANGED attempt
    /\ UNCHANGED <<pc, retries, apiValue, ParseVars, FsVars, MainVars>>

\* Timeout: sleep 5 and retry, or re-raise.
AttemptTimeout ==
    /\ InLoop
    /\ outcomes' = Append(outcomes, "timeout")
    /\ IF MayRetry(attempt, retries)
          THEN /\ log' = log \o <<Request, Sleep(TIMEOUT_SLEEP)>>
               /\ attempt' = attempt + 1
               /\ UNCHANGED apiState
          ELSE /\ log' = Append(log, Request)
               /\ apiState' = "raised"
               /\ UNCHANGED attempt
    /\ UNCHANGED <<pc, retries, apiValue, ParseVars, FsVars, MainVars>>

\* range(retries) is exhausted: the `return ""` after the loop.
LoopExhausted ==
    /\ apiState = "running"
    /\ attempt >= retries
    /\ apiState' = "returned"
    /\ apiValue' = EmptyText
    /\ UNCHANGED <<pc, retries, attempt, outcomes, log, ParseVars, FsVars, MainVars>>

ApiStep ==
    \/ AttemptSuccess
    \/ Attempt429
    \/ AttemptHTTPError
    \/ AttemptTimeout
    \/ LoopExhausted

(***************************************************************************)
(* main, step_generate_schema, step_migrate_files (src/agent.py 222-305,   *)
(* 428-496).  A completion call is recorded in calls when it is issued,    *)
(* with the files its prompt carries.  An exception nobody catches ends    *)
(* the process with status 1.                                              *)
(***************************************************************************)
file_batches == batch(analysis.convex_using, BATCH_SIZE)

\* Mutant of MainStart: the run goes on without the credential.
MainStartWithoutCheck ==
    /\ pc = "main"
    /\ pc' = "analyze"
    /\ UNCHANGED <<ApiVars, ParseVars, FsVars, MainVars>>

\* lines 444-447: the credential check.
MainStart ==
    /\ pc = "main"
    /\ IF api_key = << >>
       THEN /\ pc' = "exited"
            /\ exit_code' = 1
       ELSE /\ pc' = "analyze"
            /\ UNCHANGED exit_code
    /\ UNCHANGED <<ApiVars, ParseVars, FsVars, api_key, analysis, schema_changes,
                   app_changes, batch_i, calls, replies, report>>

\* Mutant of Analyze: the run stops when either list is empty.
AnalyzeStopsOnEitherEmpty ==
    /\ pc = "analyze"
    /\ analysis' = step_analyze(source)
    /\ IF analysis'.convex_files = << >> \/ analysis'.convex_using = << >>
       THEN /\ pc' = "exited"
            /\ exit_code' = 0
       ELSE /\ pc' = "schema"
            /\ UNCHANGED exit_code
    /\ UNCHANGED <<ApiVars, ParseVars, FsVars, api_key, schema_changes,
                   app_changes, batch_i, calls, replies, report>>

\* lines 456-466: step_analyze, the zero-work exit, build_context_summary.
Analyze ==
    /\ pc = "analyze"
    /\ analysis' = step_analyze(source)
    /\ IF analysis'.convex_files = << >> /\ analysis'.convex_using = << >>
       THEN /\ pc' = "exited"
            /\ exit_code' = 0
       ELSE /\ pc' = "schema"
            /\ UNCHANGED exit_code
    /\ UNCHANGED <<ApiVars, ParseVars, FsVars, api_key, schema_changes,
                   app_changes, batch_i, calls, replies, report>>

\* step_generate_schema up to its call of call_cursor_api (line 260).
SchemaCall ==
    /\ pc = "schema"
    /\ apiState = "idle"
    /\ BeginCall(DEFAULT_RETRIES)
    /\ calls' = Append(calls, [kind |-> "schema", files |-> << >>])
    /\ UNCHANGED <<pc, ParseVars, FsVars, api_key, analysis, schema_changes,
                   app_changes, batch_i, replies, exit_code, report>>

\* lines 261-263 and 471-474: the response is parsed; step_migrate_files starts.
SchemaReturn ==
    /\ pc = "schema"
    /\ apiState = "returned"
    /\ schema_changes' = parse_file_blocks(apiValue)
    /\ app_changes' = << >>
    /\ batch_i' = 0
    /\ replies' = Append(replies, Reply)
    /\ EndCall
    /\ pc' = "migrate"
    /\ UNCHANGED <<ParseVars, FsVars, api_key, analysis, calls, exit_code, report>>

\* lines 276-298: the prompt of the next batch is built and sent.
BatchCall ==
    /\ pc = "migrate"
    /\ apiState = "idle"
    /\ batch_i < Len(file_batches)
    /\ BeginCall(DEFAULT_RETRIES)
    /\ calls' = Append(calls, [kind |-> "batch", files |-> file_batches[batch_i + 1]])
    /\ UNCHANGED <<pc, ParseVars, FsVars, api_key, analysis, schema_changes,
                   app_changes, batch_i, replies, exit_code, report>>

\* lines 299-303: the response is parsed and its operations appended.
BatchReturn ==
    /\ pc = "migrate"
    /\ apiState = "returned"
    /\ app_changes' = app_changes \o parse_file_blocks(apiValue)
    /\ batch_i' = batch_i + 1
    /\ replies' = Append(replies, Reply)
    /\ EndCall
    /\ UNCHANGED <<pc, ParseVars, FsVars, api_key, analysis, schema_changes, calls,
                   exit_code, report>>

\* Mutant of Aggregate: the batch operations come first.
AggregateAppFirst(schema, app) == app \o schema

\* line 482: all_changes = schema_changes + app_changes
Aggregate(schema, app) == schema \o app

\* lines 305 and 482-487: all batches are done; step_apply_changes is entered.
MigrateReturn ==
    /\ pc = "migrate"
    /\ apiState = "idle"
    /\ batch_i = Len(file_batches)
    /\ all_changes' = Aggregate(schema_changes, app_changes)
    /\ target0' = target
    /\ pc' = "apply"
    /\ UNCHANGED <<ApiVars, ParseVars, MainVars, source, target, dry_run, stats, cursor, runs>>

\* call_cursor_api raised: neither step function nor main catches it.
CallRaised ==
    /\ pc \in {"schema", "migrate"}
    /\ apiState = "raised"
    /\ EndCall
    /\ pc' = "exited"
    /\ exit_code' = 1
    /\ UNCHANGED <<ParseVars, FsVars, api_key, analysis, schema_changes,
                   app_changes, batch_i, calls, replies, report>>

\* lines 488-496: write_report, then main returns.
WriteReport ==
    /\ pc = "applied"
    /\ report' = TRUE
    /\ exit_code' = 0
    /\ pc' = "exited"
    /\ UNCHANGED <<ApiVars, ParseVars, FsVars, api_key, analysis, schema_changes,
                   app_changes, batch_i, calls, replies>>

(***************************************************************************)
(* Inputs of the model.                                                    *)
(***************************************************************************)
\* The subsequence of u at the positions in S.
Pick(u, S) ==
    LET In(i) == i \in S
        idx == SelectSeq([i \in 1..Len(u) |-> i], In)
    IN  [k \in 1..Len(idx) |-> u[idx[k]]]

SeqsUpTo(S, n) == UNION {[1..k -> S] : k \in 0..n}

OldTree(locs) == [l \in locs |-> OLD]

ApiIdle ==
    /\ retries = DEFAULT_RETRIES
    /\ attempt = 0
    /\ outcomes = << >>
    /\ log = << >>
    /\ apiState = "idle"
    /\ apiValue = EmptyText

ParseIdle ==
    /\ response = EmptyText
    /\ changes = << >>

FsIdle ==
    /\ source = << >>
    /\ target = EmptyTree
    /\ target0 = EmptyTree
    /\ all_changes = << >>
    /\ dry_run = FALSE
    /\ stats = ZeroStats
    /\ cursor = 0
    /\ runs = << >>

MainIdle ==
    /\ api_key = << >>
    /\ analysis = NoAnalysis
    /\ schema_changes = << >>
    /\ app_changes = << >>
    /\ batch_i = 0
    /\ calls = << >>
    /\ replies = << >>
    /\ exit_code = -1
    /\ report = FALSE

(***************************************************************************)
(* SpecApi: one call of call_cursor_api with any retries in 0..MaxRetries. *)
(***************************************************************************)
InitApi ==
    /\ pc = "api"
    /\ retries \in 0..MaxRetries
    /\ attempt = 0
    /\ outcomes = << >>
    /\ log = << >>
    /\ apiState = "running"
    /\ apiValue = EmptyText
    /\ ParseIdle
    /\ FsIdle
    /\ MainIdle

NextApi == ApiStep

SpecApi == InitApi /\ [][NextApi]_vars

\* A request ends within its timeout (timeout=120, line 107) and a sleep ends:
\* a call that can take a step takes it.
SpecApiFair == SpecApi /\ WF_vars(NextApi)

(***************************************************************************)
(* SpecApply: step_apply_changes on any small source tree, target tree and *)
(* operation list, called once and then once more with the same arguments. *)
(***************************************************************************)
ApplySourceUniverse ==
    << [path |-> P_APP, content |-> <<"s", "1">>],
       [path |-> P_LEGACY, content |-> <<"s", "2">>] >>

ApplyOps ==
    {[action |-> "write", path |-> p, content |-> c] : p \in {P_APP, P_LEGACY, P_OUT}, c \in {V1, V2}}
    \cup {[action |-> "delete", path |-> p, content |-> << >>] : p \in {P_APP, P_LEGACY, P_OUT}}

InitApply ==
    /\ pc = "apply"
    /\ ApiIdle
    /\ ParseIdle
    /\ MainIdle
    /\ source \in {Pick(ApplySourceUniverse, S) : S \in SUBSET (1..Len(ApplySourceUniverse))}
    /\ target \in {OldTree(L) : L \in SUBSET {Resolve(Parts(P_APP)), Resolve(Parts(P_LEGACY))}}
    /\ target0 = target
    /\ all_changes \in SeqsUpTo(ApplyOps, MaxOps)
    /\ dry_run \in BOOLEAN
    /\ stats = ZeroStats
    /\ cursor = 0
    /\ runs = << >>

\* The caller calls step_apply_changes again with the same arguments.
ApplyAgain ==
    /\ pc = "applied"
    /\ Len(runs) = 1
    /\ pc' = "apply"
    /\ target0' = target
    /\ UNCHANGED <<ApiVars, ParseVars, MainVars, source, target, all_changes, dry_run,
                   stats, cursor, runs>>

NextApply == ApplyStep \/ ApplyAgain

SpecApply == InitApply /\ [][NextApply]_vars

(***************************************************************************)
(* Spec: a whole run of main.  The source tree holds n files that use      *)
(* Convex (n in 0..MaxFiles), a file that does not, a file with an ignored *)
(* extension, a file in an ignored directory and, or not, a file under     *)
(* convex/.                                                                *)
(***************************************************************************)
Letters == <<"a", "b", "c", "d", "e", "f", "g", "h", "i", "j", "k", "l", "m", "n", "o">>

CandidateFile(i) ==
    [path |-> <<"a", "p", "p", "/", Letters[i], ".", "t", "s">>,
     content |-> <<"a", "p", "i", ".", "x">>]

MainTree(n, legacy) ==
    [i \in 1..n |-> CandidateFile(i)]
    \o << [path |-> <<"a", "p", "p", "/", "y", ".", "t", "s">>, content |-> <<"s">>],
          [path |-> <<"a", "p", "p", "/", "z", ".", "p", "n", "g">>, content |-> <<"s">>] >>
    \o (IF legacy THEN << [path |-> P_LEGACY, content |-> <<"s">>] >> ELSE << >>)
    \o << [path |-> <<"i", "o", "s", "/", "p", ".", "t", "s">>, content |-> <<"s">>] >>

Init ==
    /\ pc = "main"
    /\ ApiIdle
    /\ ParseIdle
    /\ api_key \in { << >>, <<"k">> }
    /\ analysis = NoAnalysis
    /\ schema_changes = << >>
    /\ app_changes = << >>
    /\ batch_i = 0
    /\ calls = << >>
    /\ replies = << >>
    /\ exit_code = -1
    /\ report = FALSE
    /\ source \in {MainTree(n, legacy) : n \in 0..MaxFiles, legacy \in BOOLEAN}
    /\ target = OldTree({Resolve(Parts(P_NEW))})
    /\ target0 = target
    /\ all_changes = << >>
    /\ dry_run \in BOOLEAN
    /\ stats = ZeroStats
    /\ cursor = 0
    /\ runs = << >>

Next ==
    \/ MainStart
    \/ Analyze
    \/ SchemaCall
    \/ SchemaReturn
    \/ BatchCall
    \/ BatchReturn
    \/ MigrateReturn
    \/ CallRaised
    \/ ApiStep
    \/ ApplyStep
    \/ WriteReport

Spec == Init /\ [][Next]_vars

(***************************************************************************)
(* SpecParse: parse_file_blocks on any text made of up to MaxBlocks        *)
(* pieces: well-formed blocks, malformed markers and plain text.           *)
(***************************************************************************)
ParsePaths ==
    { <<"a">>, <<"/", "x", "/", "y">>, <<".", ".", "/", "a">>,
      <<"b", "/", ".", ".", "/", ".", ".", "/", "a">> }

ParseContents == { <<"h", "i">>, <<" ", "h", "i", "\n">>, << >> }

ParsePieces ==
    {WriteBlock(p, c) : p \in ParsePaths, c \in ParseContents}
    \cup {DeleteBlock(p) : p \in ParsePaths}
    \cup { <<"z">>,
           FILE_CLOSE,
           FILE_OPEN \o <<" ">> \o PATH_ATTR \o <<"a">> \o QUOTE_GT \o <<"h", "i">>,
           FILE_OPEN \o <<" ">> \o PATH_ATTR \o QUOTE_GT \o <<"h", "i">> \o FILE_CLOSE,
           FILE_OPEN \o PATH_ATTR \o <<"a">> \o QUOTE_GT \o <<"h", "i">> \o FILE_CLOSE,
           DELETE_OPEN \o <<"\n">> \o PATH_ATTR \o <<"a">> \o QUOTE \o SLASH_GT,
           DELETE_OPEN \o <<" ">> \o PATH_ATTR \o <<"a">> \o QUOTE_GT }

\* Texts with write and delete markers interleaved, and with a marker inside
\* the content of a write block.
ParseInterleaved ==
    { WriteBlock(<<"a">>, <<"h", "i">>) \o DeleteBlock(<<"/", "x", "/", "y">>)
        \o <<"z">> \o WriteBlock(<<"b">>, <<" ", "h", "i", "\n">>) \o DeleteBlock(<<"a">>),
      DeleteBlock(<<"a">>) \o WriteBlock(<<"a">>, <<"h", "i">>)
        \o DeleteBlock(<<"b">>) \o WriteBlock(<<"/", "x", "/", "y">>, << >>),
      WriteBlock(<<"a">>, DeleteBlock(<<"b">>)),
      WriteBlock(<<"a">>, <<"h", "i">> \o FILE_OPEN \o <<" ">> \o PATH_ATTR \o <<"b">> \o QUOTE_GT),
      WriteBlock(<<"a">>, <<"\n", "h", " ", "i", "\n">> \o FILE_CLOSE \o <<"z">>) }

InitParse ==
    /\ pc = "parse"
    /\ ApiIdle
    /\ FsIdle
    /\ MainIdle
    /\ response \in {Flatten(ps) : ps \in SeqsUpTo(ParsePieces, MaxBlocks)} \cup ParseInterleaved
    /\ changes = << >>

\* changes = parse_file_blocks(response)
ParseResponse ==
    /\ pc = "parse"
    /\ changes' = parse_file_blocks(response)
    /\ pc' = "parsed"
    /\ UNCHANGED <<response, ApiVars, FsVars, MainVars>>

NextParse == ParseResponse

SpecParse == InitParse /\ [][NextParse]_vars

(***************************************************************************)
(* Properties of call_cursor_api, checked under SpecApi.                   *)
(***************************************************************************)
ApiEnded == apiState \in {"returned", "raised"}

Sleeps == SelectSeq(log, LAMBDA e : e.ev = "sleep")

\* C1: when all `retries` attempts of a call fail (429, other HTTP error or
\* timeout), the call raises an error and returns no value to its caller.
C1_ExhaustedCallRaises ==
    retries >= 1 /\ ApiEnded /\ AllAttemptsFailed => apiState = "raised"

\* C2: with retries = 3, after three consecutive 429 responses the call has
\* slept exactly three times, each sleep longer than the one before, and it
\* returns the completion text of the successful response that follows.
C2_ThreeRateLimitsThenSuccess ==
    /\ retries = DEFAULT_RETRIES
    /\ ApiEnded
    /\ Len(outcomes) >= 3
    /\ \A i \in 1..3 : outcomes[i] = "429"
    => /\ Len(Sleeps) = 3
       /\ \A i \in 1..2 : Sleeps[i].secs < Sleeps[i + 1].secs
       /\ apiState = "returned"
       /\ Len(outcomes) = 4
       /\ outcomes[4] = "ok"

Requests == SelectSeq(log, LAMBDA e : e.ev = "request")

\* C16: a call issues at most `retries` requests whatever the outcomes, one
\* per attempt (a 429 uses up an attempt like any other failure), and it ends:
\* it returns or raises, and issues no request after that.
C16_AtMostRetriesRequestsThenEnds ==
    /\ [](Len(Requests) <= retries /\ Len(Requests) = Len(outcomes))
    /\ <>(apiState \in {"returned", "raised"})
    /\ [][(apiState = "returned" \/ apiState = "raised") => log' = log]_vars

C16_Witness ==
    /\ apiState = "raised"
    /\ retries = 3
    /\ outcomes = <<"429", "http", "timeout">>
    /\ Len(Requests) = 3

\* The positions of the requests in log, and what the call did after its
\* j-th request and before the next one.
RequestPositions == SelectSeq([i \in 1..Len(log) |-> i], LAMBDA i : log[i].ev = "request")

AfterRequest(j) ==
    SubSeq(log, RequestPositions[j] + 1,
           IF j < Len(RequestPositions) THEN RequestPositions[j + 1] - 1 ELSE Len(log))

\* C17: of a call that has ended, the failed attempt k (0-based) was followed
\* by one sleep and then another request when it was retried, and by nothing
\* otherwise: a 429 slept 10*(k+1) seconds, another HTTP error 3 seconds and a
\* timeout 5 seconds, these two exactly when k < retries - 1; a success was
\* followed by nothing; every sleep was followed by another request.
C17_SleepThenRequestOnlyOnRetry ==
    apiState \in {"returned", "raised"} =>
        /\ \A i \in 1..Len(log) :
              log[i].ev = "sleep" => i < Len(log) /\ log[i + 1].ev = "request"
        /\ \A j \in 1..Len(RequestPositions) :
              LET k == j - 1
                  o == outcomes[j]
                  retried == j < Len(RequestPositions)
              IN  /\ o = "ok" => AfterRequest(j) = << >> /\ ~retried
                  /\ o = "429" =>
                        AfterRequest(j) = << [ev |-> "sleep", secs |-> 10 * (k + 1)] >> /\ retried
                  /\ o = "http" =>
                        /\ retried <=> k < retries - 1
                        /\ AfterRequest(j) =
                              IF retried THEN << [ev |-> "sleep", secs |-> 3] >> ELSE << >>
                  /\ o = "timeout" =>
                        /\ retried <=> k < retries - 1
                        /\ AfterRequest(j) =
                              IF retried THEN << [ev |-> "sleep", secs |-> 5] >> ELSE << >>

(***************************************************************************)
(* Properties of a whole run, checked under Spec.                          *)
(***************************************************************************)
ApplyPhases == {"apply", "copy", "ops", "applied"}

FinishedRun == pc = "exited" /\ exit_code = 0 /\ report

BatchCalls == SelectSeq(calls, LAMBDA c : c.kind = "batch")

\* C3: once a completion call has used up its retries without a success, the
\* run ends at once: no further call is issued, step_apply_changes is not
\* entered, the target tree is untouched and the run does not finish.
C3_ExhaustedCallAbortsRun ==
    \A k \in 1..Len(replies) :
        replies[k].exhausted =>
            /\ Len(calls) = k
            /\ pc \notin ApplyPhases
            /\ target = target0
            /\ ~FinishedRun

\* C9: the n candidate files are split into ceil(n/5) batches, every batch
\* but the last of 5 files and the last of 1 to 5; the batches concatenated
\* are the candidate list; the batch calls issued so far carry the first
\* batches in order, one call per batch, and all of them once the migration
\* pass has returned.
C9_BatchesPartitionInOrder ==
    LET items == analysis.convex_using
        b == file_batches
        sent == BatchCalls
    IN  /\ Len(b) = (Len(items) + BATCH_SIZE - 1) \div BATCH_SIZE
        /\ \A k \in 1..(Len(b) - 1) : Len(b[k]) = BATCH_SIZE
        /\ Len(b) > 0 => Len(b[Len(b)]) \in 1..BATCH_SIZE
        /\ Flatten(b) = items
        /\ Len(sent) <= Len(b)
        /\ \A j \in 1..Len(sent) : sent[j].files = b[j]
        /\ pc = "migrate" => Len(sent) = batch_i + (IF apiState = "idle" THEN 0 ELSE 1)
        /\ pc \in ApplyPhases \/ FinishedRun => Len(sent) = Len(b)

C9_Witness ==
    /\ FinishedRun
    /\ Len(analysis.convex_using) = 12
    /\ [j \in 1..Len(BatchCalls) |-> Len(BatchCalls[j].files)] = <<5, 5, 2>>

\* C10: the list step_apply_changes is given is the operations parsed from
\* the schema reply followed by those parsed from each batch reply in batch
\* order, each reply's operations in the order the parser returned them.
C10_AggregationKeepsOrder ==
    pc \in ApplyPhases =>
        /\ Len(replies) = 1 + Len(file_batches)
        /\ all_changes = Flatten([k \in 1..Len(replies) |-> parse_file_blocks(replies[k].text)])

C10_Witness ==
    /\ pc = "apply"
    /\ Len(replies) = 3
    /\ replies[1].text = RESP_A
    /\ replies[2].text = RESP_B
    /\ replies[3].text = RESP_A
    /\ Len(all_changes) = 6

\* C14: without the credential (CURSOR_API_KEY absent or empty) the run ends
\* with a non-zero status before any work: the source is not scanned, no
\* completion call is issued, step_apply_changes is not entered, the target
\* tree is as it was and no report is written.
C14_NoCredentialNoWork ==
    api_key = << >> =>
        /\ pc \in {"main", "exited"}
        /\ pc = "exited" => exit_code \notin {-1, 0}
        /\ analysis = [all_files |-> << >>, convex_files |-> << >>, convex_using |-> << >>]
        /\ calls = << >>
        /\ replies = << >>
        /\ runs = << >>
        /\ target = target0
        /\ ~report

C14_Witness ==
    /\ api_key = << >>
    /\ pc = "exited"
    /\ exit_code = 1
    /\ Len(source) = 12 + 4
    /\ ~dry_run

\* step_analyze has run.
Analyzed == api_key # << >> /\ pc \notin {"main", "analyze"}

\* C20: when step_analyze finds no file under convex/ and no file that uses
\* Convex, the run ends with status 0 before any completion call, without
\* entering step_apply_changes (the target tree is as it was) and without a
\* report; otherwise the run goes on to the schema pass.
C20_ZeroWorkExitsBeforeAnyCall ==
    Analyzed =>
        IF analysis.convex_files = << >> /\ analysis.convex_using = << >>
        THEN /\ pc = "exited"
             /\ exit_code = 0
             /\ calls = << >>
             /\ runs = << >>
             /\ target = target0
             /\ ~report
        ELSE \/ pc = "schema"
             \/ calls # << >> /\ calls[1].kind = "schema"

\* The source tree holds files, none of them under convex/ or using Convex.
C20_Witness ==
    /\ Analyzed
    /\ Len(analysis.all_files) = 1
    /\ analysis.convex_files = << >>
    /\ analysis.convex_using = << >>
    /\ pc = "exited"
    /\ exit_code = 0
    /\ ~dry_run

(***************************************************************************)
(* Properties of parse_file_blocks, checked under SpecParse.               *)
(***************************************************************************)
\* C4: every operation parse_file_blocks returns has a relative, normalized
\* path: no leading separator and no traversal that leaves the target root.
C4_PathsStayInsideRoot ==
    pc = "parsed" =>
        \A k \in 1..Len(changes) :
            /\ changes[k].path = << >> \/ Head(changes[k].path) # "/"
            /\ ~OutsideRoot(Resolve(Parts(changes[k].path)))

\* The literal lit stands in t at position i.
OccursAt(t, i, lit) ==
    /\ i >= 1
    /\ i + Len(lit) - 1 <= Len(t)
    /\ SubSeq(t, i, i + Len(lit) - 1) = lit

Whitespace == {" ", "\t", "\n", "\r"}

\* A complete write-marker stands in t at s: `<FILE`, whitespace, `path="` at a,
\* a non-empty path without '"' up to the `">` at b, and the first `</FILE>`
\* after that at e.
WriteMarkerSpan(t, s, a, b, e) ==
    /\ OccursAt(t, s, <<"<", "F", "I", "L", "E">>)
    /\ a > s + 5
    /\ \A i \in (s + 5)..(a - 1) : t[i] \in Whitespace
    /\ OccursAt(t, a, <<"p", "a", "t", "h", "=", "\"">>)
    /\ b > a + 6
    /\ \A i \in (a + 6)..(b - 1) : t[i] # "\""
    /\ OccursAt(t, b, <<"\"", ">">>)
    /\ e >= b + 2
    /\ OccursAt(t, e, <<"<", "/", "F", "I", "L", "E", ">">>)
    /\ \A i \in (b + 2)..(e - 1) : ~OccursAt(t, i, <<"<", "/", "F", "I", "L", "E", ">">>)

\* A complete delete-marker stands in t at s: `<DELETE`, whitespace, `path="` at
\* a, a non-empty path without '"' up to the '"' at b, optional whitespace and
\* `/>` at e.
DeleteMarkerSpan(t, s, a, b, e) ==
    /\ OccursAt(t, s, <<"<", "D", "E", "L", "E", "T", "E">>)
    /\ a > s + 7
    /\ \A i \in (s + 7)..(a - 1) : t[i] \in Whitespace
    /\ OccursAt(t, a, <<"p", "a", "t", "h", "=", "\"">>)
    /\ b > a + 6
    /\ \A i \in (a + 6)..(b - 1) : t[i] # "\""
    /\ t[b] = "\""
    /\ e > b
    /\ \A i \in (b + 1)..(e - 1) : t[i] \in Whitespace
    /\ OccursAt(t, e, <<"/", ">">>)

HasWriteMarker(t) ==
    \E s \in 1..Len(t) :
        /\ OccursAt(t, s, <<"<", "F", "I", "L", "E">>)
        /\ \E a \in (s + 6)..Len(t) :
              /\ OccursAt(t, a, <<"p", "a", "t", "h", "=", "\"">>)
              /\ \E b \in (a + 7)..Len(t) :
                    /\ OccursAt(t, b, <<"\"", ">">>)
                    /\ \E e \in (b + 2)..Len(t) : WriteMarkerSpan(t, s, a, b, e)

HasDeleteMarker(t) ==
    \E s \in 1..Len(t) :
        /\ OccursAt(t, s, <<"<", "D", "E", "L", "E", "T", "E">>)
        /\ \E a \in (s + 8)..Len(t) :
              /\ OccursAt(t, a, <<"p", "a", "t", "h", "=", "\"">>)
              /\ \E b \in (a + 7)..Len(t) :
                    /\ t[b] = "\""
                    /\ \E e \in (b + 1)..Len(t) : DeleteMarkerSpan(t, s, a, b, e)

\* C11: parse_file_blocks returns a list of write and delete operations for
\* every response text, and the empty list for a text that holds no complete
\* write-marker and no complete delete-marker.
C11_NoMarkerNoOperation ==
    pc = "parsed" =>
        /\ \A k \in 1..Len(changes) : changes[k].action \in {"write", "delete"}
        /\ ~HasWriteMarker(response) /\ ~HasDeleteMarker(response) => changes = << >>

\* A write-marker without whitespace before its path attribute, followed by
\* a delete-marker that is not closed by `/>`.
C11_Witness ==
    /\ pc = "parsed"
    /\ response = <<"<", "F", "I", "L", "E", "p", "a", "t", "h", "=", "\"", "a", "\"", ">", "h", "i",
                    "<", "/", "F", "I", "L", "E", ">",
                    "<", "D", "E", "L", "E", "T", "E", " ", "p", "a", "t", "h", "=", "\"", "a", "\"", ">">>
    /\ changes = << >>

\* p without its leading separators.
SansLeadingSlashes(p) ==
    LET rest == {i \in 1..Len(p) : p[i] # "/"}
    IN  IF rest = {} THEN << >>
        ELSE SubSeq(p, CHOOSE i \in rest : \A j \in rest : i <= j, Len(p))

\* c without the whitespace around it.
Trimmed(c) ==
    LET ink == {i \in 1..Len(c) : c[i] \notin Whitespace}
    IN  IF ink = {} THEN << >>
        ELSE SubSeq(c, CHOOSE i \in ink : \A j \in ink : i <= j,
                       CHOOSE i \in ink : \A j \in ink : j <= i)

\* op is the write operation of a write-marker that starts in t at s.
WriteOpAt(t, s, op) ==
    /\ OccursAt(t, s, <<"<", "F", "I", "L", "E">>)
    /\ \E a \in (s + 6)..Len(t) :
          /\ OccursAt(t, a, <<"p", "a", "t", "h", "=", "\"">>)
          /\ \E b \in (a + 7)..Len(t) :
                /\ OccursAt(t, b, <<"\"", ">">>)
                /\ \E e \in (b + 2)..Len(t) :
                      /\ WriteMarkerSpan(t, s, a, b, e)
                      /\ op.action = "write"
                      /\ op.path = SansLeadingSlashes(SubSeq(t, a + 6, b - 1))
                      /\ op.content = Trimmed(SubSeq(t, b + 2, e - 1))

\* op is the delete operation of a delete-marker that starts in t at s.
DeleteOpAt(t, s, op) ==
    /\ OccursAt(t, s, <<"<", "D", "E", "L", "E", "T", "E">>)
    /\ \E a \in (s + 8)..Len(t) :
          /\ OccursAt(t, a, <<"p", "a", "t", "h", "=", "\"">>)
          /\ \E b \in (a + 7)..Len(t) :
                /\ t[b] = "\""
                /\ \E e \in (b + 1)..Len(t) :
                      /\ DeleteMarkerSpan(t, s, a, b, e)
                      /\ op.action = "delete"
                      /\ op.path = SansLeadingSlashes(SubSeq(t, a + 6, b - 1))
                      /\ op.content = << >>

RECURSIVE WritesInOrder(_, _, _)
\* The operations ops are those of write-markers of t that start at increasing
\* positions from `from` on.
WritesInOrder(t, ops, from) ==
    \/ ops = << >>
    \/ \E s \in from..Len(t) : WriteOpAt(t, s, Head(ops)) /\ WritesInOrder(t, Tail(ops), s + 1)

RECURSIVE DeletesInOrder(_, _, _)
DeletesInOrder(t, ops, from) ==
    \/ ops = << >>
    \/ \E s \in from..Len(t) : DeleteOpAt(t, s, Head(ops)) /\ DeletesInOrder(t, Tail(ops), s + 1)

\* C12: in the list parse_file_blocks returns every write operation precedes
\* every delete operation, the write operations are in the document order of
\* their markers and the delete operations in the document order of theirs.
C12_WritesThenDeletesInDocumentOrder ==
    pc = "parsed" =>
        LET w == SelectSeq(changes, LAMBDA c : c.action = "write")
            d == SelectSeq(changes, LAMBDA c : c.action = "delete")
        IN  /\ changes = w \o d
            /\ WritesInOrder(response, w, 1)
            /\ DeletesInOrder(response, d, 1)

\* The text is delete a, write a, delete b, write /x/y.
C12_Witness ==
    /\ pc = "parsed"
    /\ OccursAt(response, 1, <<"<", "D", "E", "L", "E", "T", "E">>)
    /\ Len(changes) = 4
    /\ [k \in 1..4 |-> changes[k].action] = <<"write", "write", "delete", "delete">>
    /\ [k \in 1..4 |-> changes[k].path] = << <<"a">>, <<"x", "/", "y">>, <<"a">>, <<"b">> >>

\* The position of the first closing write-marker of c followed by one.
FirstClose(c) ==
    LET t == c \o <<"<", "/", "F", "I", "L", "E", ">">>
    IN  CHOOSE n \in 1..Len(t) :
            /\ OccursAt(t, n, <<"<", "/", "F", "I", "L", "E", ">">>)
            /\ \A m \in 1..(n - 1) : ~OccursAt(t, m, <<"<", "/", "F", "I", "L", "E", ">">>)

\* c up to its first closing write-marker, and what follows that marker.
UpToFirstClose(c) == SubSeq(c, 1, FirstClose(c) - 1)
AfterFirstClose(c) ==
    SubSeq(c \o <<"<", "/", "F", "I", "L", "E", ">">>, FirstClose(c) + 7, Len(c) + 7)

\* The relative paths and the contents of the write blocks C13 is checked on.
BlockPaths == { <<"a">>, <<".", ".", "/", "a">>, <<"b", "/", ".", ".", "/", ".", ".", "/", "a">> }

BlockContents ==
    { <<"h", "i">>, <<" ", "h", "i", "\n">>, << >>,
      <<"\n", "h", " ", "i", "\n", "<", "/", "F", "I", "L", "E", ">", "z">>,
      <<"h", "i", "<", "F", "I", "L", "E", " ", "p", "a", "t", "h", "=", "\"", "b", "\"", ">">>,
      <<"<", "D", "E", "L", "E", "T", "E", " ", "p", "a", "t", "h", "=", "\"", "b", "\"", " ", "/", ">">>,
      <<"h", "i", "<", "/", "F", "I", "L", "E", ">",
        "<", "F", "I", "L", "E", " ", "p", "a", "t", "h", "=", "\"", "a", "\"", ">", "h", "i">> }

\* The text `<FILE path="P">C</FILE>`.
OneWriteBlock(P, C) ==
    <<"<", "F", "I", "L", "E", " ", "p", "a", "t", "h", "=", "\"">> \o P \o <<"\"", ">">>
    \o C \o <<"<", "/", "F", "I", "L", "E", ">">>

\* C13 as stated: a response `<FILE path="P">C</FILE>` parses to exactly one
\* operation, the write of path P with the content C up to its first closing
\* write-marker, trimmed.
C13_OneWriteBlockOneOperation ==
    pc = "parsed" =>
        \A P \in BlockPaths, C \in BlockContents :
            response = OneWriteBlock(P, C) =>
                changes = << [action |-> "write", path |-> P,
                              content |-> Trimmed(UpToFirstClose(C))] >>

\* C13 as amended: the first operation parsed from `<FILE path="P">C</FILE>` is
\* the write of path P with the content C up to its first closing write-marker,
\* trimmed; it is the only operation when the response holds no complete
\* delete-marker and the text after that closing marker no complete
\* write-marker.
C13_OneWriteBlockFirstOperation ==
    pc = "parsed" =>
        \A P \in BlockPaths, C \in BlockContents :
            response = OneWriteBlock(P, C) =>
                /\ Len(changes) >= 1
                /\ changes[1] = [action |-> "write", path |-> P,
                                 content |-> Trimmed(UpToFirstClose(C))]
                /\ ~HasDeleteMarker(response) /\ ~HasWriteMarker(AfterFirstClose(C))
                      => Len(changes) = 1

\* The content holds a closing write-marker: what follows it is dropped.
C13_Witness ==
    /\ pc = "parsed"
    /\ response = OneWriteBlock(<<"a">>, <<"\n", "h", " ", "i", "\n", "<", "/", "F", "I", "L", "E", ">", "z">>)
    /\ changes = << [action |-> "write", path |-> <<"a">>, content |-> <<"h", " ", "i">>] >>

(***************************************************************************)
(* Properties of step_apply_changes, checked under SpecApply.              *)
(***************************************************************************)
AppliedLive == pc = "applied" /\ ~dry_run
AppliedDry == pc = "applied" /\ dry_run

\* The first segment of the file's relative path is the directory name convex.
UnderLegacyDir(f) == SplitSlash(f.path)[1] = CONVEX

\* The source files under the top-level directory convex/.
LegacySourceLocs ==
    {Resolve(Parts(source[i].path)) : i \in {j \in 1..Len(source) : UnderLegacyDir(source[j])}}

\* The scanned source files outside convex/: those the copy loop copies.
CopiedSourceLocs ==
    {Resolve(Parts(iter_source_files(source)[i].path)) :
        i \in {j \in 1..Len(iter_source_files(source)) : ~UnderLegacyDir(iter_source_files(source)[j])}}

OpIndexes(loc) == {k \in 1..Len(all_changes) : Dest(all_changes[k]) = loc}
LastOp(loc) == all_changes[CHOOSE k \in OpIndexes(loc) : \A j \in OpIndexes(loc) : j <= k]
WrittenTo(loc) == \E k \in OpIndexes(loc) : IsWrite(all_changes[k])

\* The state of loc in the target tree is the one its last operation leaves.
LastOpDecides(loc) ==
    /\ IsWrite(LastOp(loc)) => Exists(target, loc) /\ target[loc] = LastOp(loc).content
    /\ IsDelete(LastOp(loc)) => ~Exists(target, loc)

\* The locations whose file is created, modified or deleted by the step.
TouchedLocs ==
    {loc \in (DOMAIN target) \cup (DOMAIN target') :
        \/ (loc \in DOMAIN target) # (loc \in DOMAIN target')
        \/ loc \in DOMAIN target /\ loc \in DOMAIN target' /\ target[loc] # target'[loc]}

\* C15: every file step_apply_changes creates, modifies or deletes lies inside
\* the target root, for every operation list, and the source tree is left as
\* it is.
C15_NothingTouchedOutsideTarget ==
    [][/\ \A loc \in TouchedLocs : loc = << >> \/ loc[1] # ".."
       /\ source' = source]_vars

C6_LastOperationWins ==
    AppliedLive => \A loc \in {Dest(all_changes[k]) : k \in 1..Len(all_changes)} : LastOpDecides(loc)

C6_Witness ==
    /\ AppliedLive
    /\ all_changes = << [action |-> "write", path |-> P_APP, content |-> V1],
                       [action |-> "write", path |-> P_APP, content |-> V2] >>
    /\ target[Resolve(Parts(P_APP))] = V2

\* C7: in a live apply no operation is applied while the copy loop runs, and
\* after the apply a path named both by a copied source file and by an
\* operation is in the state its last operation leaves, not the copied one.
C7_OperationsAfterCopies ==
    /\ pc = "copy" => stats.written = 0 /\ stats.deleted = 0 /\ stats.skipped = 0
    /\ pc = "ops" => stats.copied = Cardinality(CopiedSourceLocs)
    /\ AppliedLive =>
          \A loc \in CopiedSourceLocs : OpIndexes(loc) # {} => LastOpDecides(loc)

C7_Witness ==
    /\ AppliedLive
    /\ stats.copied = 1
    /\ Resolve(Parts(P_APP)) \in CopiedSourceLocs
    /\ all_changes = << [action |-> "write", path |-> P_APP, content |-> V1] >>
    /\ target[Resolve(Parts(P_APP))] = V1

\* C8: a dry run leaves the source tree and the target tree as they are and
\* returns written = number of writes, deleted = number of deletes, copied = 0,
\* skipped = 0; every dry run of the same list returns the same stats.
C8_DryRunCountsOnly ==
    /\ [][pc = "apply" /\ dry_run =>
            /\ source' = source
            /\ target' = target
            /\ stats' = [copied  |-> 0,
                         written |-> Cardinality({k \in 1..Len(all_changes) : all_changes[k].action = "write"}),
                         deleted |-> Cardinality({k \in 1..Len(all_changes) : all_changes[k].action = "delete"}),
                         skipped |-> 0]]_vars
    /\ [](dry_run => target = target0 /\ \A i \in 1..Len(runs) : runs[i] = runs[1])
    /\ [](AppliedDry => runs[Len(runs)] = stats)

C8_Witness ==
    /\ AppliedDry
    /\ Len(runs) = 2
    /\ stats.written = 1
    /\ stats.deleted = 1
    /\ target # EmptyTree

\* The counters of stats other than c are unchanged by the step.
OthersUnchanged(c) ==
    \A d \in {"copied", "written", "deleted", "skipped"} \ {c} : stats'[d] = stats[d]

\* C18: a live apply consumes the operations one by one, each once: a write
\* adds one to written; a delete whose target exists removes it and adds one to
\* deleted; a delete whose target is absent changes no file and adds one to
\* skipped; no other counter moves.  No counter decreases during the apply,
\* and on return written + deleted + skipped is the length of the list and
\* copied the number of scanned source files outside convex/.
C18_EachOperationCountedOnce ==
    /\ [][pc = "ops" /\ ~dry_run =>
            LET op == all_changes[cursor + 1]
                loc == Resolve(Parts(op.path))
            IN  IF cursor' = cursor
                THEN /\ cursor = Len(all_changes)
                     /\ stats' = stats /\ target' = target
                ELSE /\ cursor < Len(all_changes)
                     /\ cursor' = cursor + 1
                     /\ pc' = "ops"
                     /\ op.action = "write" =>
                           /\ stats'.written = stats.written + 1
                           /\ OthersUnchanged("written")
                     /\ op.action = "delete" /\ loc \in DOMAIN target =>
                           /\ target' = [l \in (DOMAIN target) \ {loc} |-> target[l]]
                           /\ stats'.deleted = stats.deleted + 1
                           /\ OthersUnchanged("deleted")
                     /\ op.action = "delete" /\ loc \notin DOMAIN target =>
                           /\ target' = target
                           /\ stats'.skipped = stats.skipped + 1
                           /\ OthersUnchanged("skipped")]_vars
    /\ [][(pc = "copy" \/ pc = "ops") =>
            \A c \in {"copied", "written", "deleted", "skipped"} : stats'[c] >= stats[c]]_vars
    /\ [](AppliedLive =>
            /\ stats.written + stats.deleted + stats.skipped = Len(all_changes)
            /\ stats.copied =
                   Cardinality({i \in 1..Len(iter_source_files(source)) :
                                   ~UnderLegacyDir(iter_source_files(source)[i])})
            /\ cursor = Len(all_changes))

\* app/b.ts is copied, deleted by the first operation and absent for the second.
C18_Witness ==
    /\ AppliedLive
    /\ Len(source) = 2
    /\ all_changes = << [action |-> "delete", path |-> P_APP, content |-> << >>],
                        [action |-> "delete", path |-> P_APP, content |-> << >>] >>
    /\ stats = [copied |-> 1, written |-> 0, deleted |-> 1, skipped |-> 1]

\* C19: the copy loop of a live apply never creates or modifies a file of the
\* target tree whose first path segment is convex; a file under that path is
\* created, overwritten or deleted only by the step that applies an operation
\* naming it.
C19_OnlyOperationsTouchLegacyDir ==
    [][(\E loc \in TouchedLocs : loc # << >> /\ loc[1] = "convex") =>
          /\ pc = "ops"
          /\ cursor < Len(all_changes)
          /\ TouchedLocs = {Resolve(Parts(all_changes[cursor + 1].path))}]_vars

\* The source tree holds convex/a.ts and app/b.ts, the target tree neither;
\* after the copy loop and the operation, convex/a.ts holds the written text.
C19_Witness ==
    /\ AppliedLive
    /\ Len(source) = 2
    /\ target0 = [loc \in {} |-> << >>]
    /\ stats.copied = 1
    /\ all_changes = << [action |-> "write", path |-> P_LEGACY, content |-> V1] >>
    /\ DOMAIN target = {<<"app", "b.ts">>, <<"convex", "a.ts">>}
    /\ target[<<"convex", "a.ts">>] = V1

====
